---- MODULE Spec2Model ----
(***************************************************************************)
(* The BERT text-classification notebook                                   *)
(* (src/text_classification_benchmarks/notebooks/BERT.ipynb) as a state    *)
(* machine: one run of the notebook, cell after cell, top to bottom.  The  *)
(* state is the notebook's global names plus the part of the estimator and *)
(* of the input files that the cells read.  A cell that raises stops the   *)
(* run (error # "none"): no later cell executes.                           *)
(***************************************************************************)
EXTENDS Integers, Sequences, FiniteSets, TLC

VARIABLES
  pc,             \* the cell that runs next
  error,          \* "none", or the exception that stopped the run
  done,           \* kinds of step that have happened at least once
  model,          \* the checkpoint: utterance text -> predicted label
  global_step,    \* the estimator's trained state
  estimator_ops,  \* estimator methods the notebook has called
  input_fns,      \* every input function built: site, is_training, drop_remainder
  predict_calls,  \* number of estimator.predict calls issued
  classes,        \* the class names of classes.txt, <<>> before it is loaded
  features,       \* global `features`
  input_fn,       \* global `input_fn`
  result,         \* global `result`: the sample generator
  result_iterations, \* times `for label in result` was started
  sample_out,     \* lines printed by the sample loop
  last_gen,       \* generator of the latest per-row estimator.predict call
  val_lines, y_val, y_val_pred, incorrect, val_i,
  test_lines, y_test, y_test_pred, test_i,
  summaries,      \* performance summaries printed: "dev", "test"
  eval_result, test_result

vars == <<pc, error, done, model, global_step, estimator_ops, input_fns,
          predict_calls, classes, features, input_fn, result,
          result_iterations, sample_out, last_gen,
          val_lines, y_val, y_val_pred, incorrect, val_i,
          test_lines, y_test, y_test_pred, test_i,
          summaries, eval_result, test_result>>

------------------------------------------------------------------------------
(* Program constants *)

max_api_calls == 200

test_slice_limit == 200

predict_batch_size == 1

InitialGlobalStep == 0

sample_utterance == "How long do I have left on my plan"

------------------------------------------------------------------------------
(* Bounds of the inputs *)

NumClasses == 2

NumUtterances == 2

NumPatterns == 2

NumModels == 2

MaxShort == 2

MaxExtra == 1

------------------------------------------------------------------------------
(* Helpers *)

Min(a, b) == IF a <= b THEN a ELSE b

Take(s, n) == SubSeq(s, 1, Min(Len(s), n))

ClassNames == <<"c0", "c1", "c2", "c3">>

UtteranceNames == <<"u1", "u2", "u3", "u4">>

Utterances == {UtteranceNames[k] : k \in 1..NumUtterances}

AllUtterances == Utterances \cup {sample_utterance}

UIdx(u) == IF u = sample_utterance THEN 0
           ELSE CHOOSE k \in 1..NumUtterances : UtteranceNames[k] = u

Labels == 0..(NumClasses - 1)

\* str(k) for the labels written in the csv files
Str(k) == CASE k = 0 -> "0" [] k = 1 -> "1" [] k = 2 -> "2"
            [] k = 3 -> "3" [] k = 4 -> "4"

\* Python int(s) on the label strings that occur: the value, or ValueError
ParseInt(s) ==
  CASE s = "0" -> [ok |-> TRUE, val |-> 0]
    [] s = "1" -> [ok |-> TRUE, val |-> 1]
    [] s = "2" -> [ok |-> TRUE, val |-> 2]
    [] s = "3" -> [ok |-> TRUE, val |-> 3]
    [] s = "4" -> [ok |-> TRUE, val |-> 4]
    [] s = " 1" -> [ok |-> TRUE, val |-> 1]
    [] s = "-1" -> [ok |-> TRUE, val |-> -1]
    [] OTHER -> [ok |-> FALSE, val |-> 0]

\* classes[k] on a numpy array of n names: negative k counts from the end
IndexOK(cls, k) == k >= -Len(cls) /\ k < Len(cls)

ClassAt(cls, k) == IF k >= 0 THEN cls[k + 1] ELSE cls[Len(cls) + k + 1]

------------------------------------------------------------------------------
(* The inputs: checkpoints and csv files *)

Models == {[u \in AllUtterances |-> (UIdx(u) + m) % NumClasses] : m \in 1..NumModels}

GoodRow(p, i) == <<Str((i + p) % NumClasses),
                   UtteranceNames[((i * p) % NumUtterances) + 1]>>

GoodFile(p, n) == [i \in 1..n |-> GoodRow(p, i)]

Lens == (0..MaxShort) \cup {max_api_calls + d : d \in 0..MaxExtra}

BadRows == { <<"x", "u1">>, <<"0">>, <<"0", "u1", "extra">>,
             <<Str(NumClasses), "u1">>, <<"-1", "u1">>, <<" 1", "u2">> }

Files ==
  {GoodFile(p, n) : p \in 1..NumPatterns, n \in Lens}
  \cup {[GoodFile(1, MaxShort) EXCEPT ![b] = r] : b \in 1..MaxShort, r \in BadRows}
  \cup {[GoodFile(1, max_api_calls + 1) EXCEPT ![b] = <<"x", "u1">>] :
          b \in {max_api_calls, max_api_calls + 1}}

------------------------------------------------------------------------------
(* The external library, as the notebook uses it *)

InputExample(text) == [guid |-> 1, text_a |-> text]

\* tokenization.convert_to_unicode: a str stays the same text
ConvertToUnicode(text) == text

\* one feature per example, in order; a feature is determined by the text
ConvertExamplesToFeatures(examples) ==
  [i \in 1..Len(examples) |-> [text |-> examples[i].text_a]]

InputFnBuilder(feats, is_training, drop_remainder) ==
  [features |-> feats, is_training |-> is_training,
   drop_remainder |-> drop_remainder]

NoFeatures == <<>>

NoInputFn == InputFnBuilder(NoFeatures, FALSE, FALSE)

\* estimator.predict returns a generator: nothing is computed until next()
EstimatorPredict(fn) == [input_fn |-> fn, pos |-> 0]

NoGen == EstimatorPredict(NoInputFn)

GenHasNext(gen) == gen.pos < Len(gen.input_fn.features)

\* next(gen): the prediction of the next feature of the generator's input
GenValue(gen, m) == m[gen.input_fn.features[gen.pos + 1].text]

GenAdvance(gen) == [gen EXCEPT !.pos = @ + predict_batch_size]

\* estimator.evaluate reports the checkpoint's global_step and changes nothing
EstimatorEvaluate(gs) == [global_step |-> gs]

NoEval == [global_step |-> -1]


\* predict and evaluate read the checkpoint; only train would advance it
EstimatorStateAfterPredictTrains(gs) == gs + 1

EstimatorStateAfterPredict(gs) == gs

EstimatorStateAfterEvaluate(gs) == gs

------------------------------------------------------------------------------
(* The order of the cells *)

CellOrderSummaryFirst ==
  << "load_config", "model_fn", "estimator", "convert_sample",
     "sample_input_fn", "sample_predict", "load_classes", "print_sample",
     "read_val", "dev_summary", "val_loop", "read_test", "test_loop",
     "test_summary", "convert_dev", "evaluate_dev", "convert_test",
     "evaluate_test", "end" >>

CellOrder ==
  << "load_config", "model_fn", "estimator", "convert_sample",
     "sample_input_fn", "sample_predict", "load_classes", "print_sample",
     "read_val", "val_loop", "dev_summary", "read_test", "test_loop",
     "test_summary", "convert_dev", "evaluate_dev", "convert_test",
     "evaluate_test", "end" >>

CellIndex(c) == CHOOSE k \in 1..Len(CellOrder) : CellOrder[k] = c

NextCell(c) == CellOrder[CellIndex(c) + 1]

\* the cell c is the next to run and no cell has raised
At(c) == pc = c /\ error = "none"

------------------------------------------------------------------------------
(* The body of the validation and test loops, one row *)

ValSliceAll(lines) == lines

ValSlice(lines) == Take(lines, max_api_calls)

TestSliceAll(lines) == lines

TestSlice(lines) == Take(lines, test_slice_limit)

RowExamplesAccum(st, utterance) ==
  [i \in 1..Len(st.features) |-> InputExample(st.features[i].text)]
    \o <<InputExample(ConvertToUnicode(utterance))>>

RowExamples(st, utterance) == <<InputExample(ConvertToUnicode(utterance))>>

RowInputFnTraining(feats) == InputFnBuilder(feats, TRUE, FALSE)

RowInputFn(feats) == InputFnBuilder(feats, FALSE, FALSE)

RowPredictInputStale(st, fn) == st.input_fn

RowPredictInput(st, fn) == fn

FnLog(site, fn) == [site |-> site, is_training |-> fn.is_training,
                    drop_remainder |-> fn.drop_remainder]

\* after `y_true = int(label)`: append, convert, build, predict, append, print
RowBody(row, st, m, cls, fail, site) ==
  LET utterance == row[2]
      y_true == ParseInt(row[1]).val
      s1 == [st EXCEPT !.y = Append(@, y_true)]
  IN IF fail = "convert" THEN [s1 EXCEPT !.error = "LibraryError"]
     ELSE
       LET feats == ConvertExamplesToFeatures(RowExamples(st, utterance))
           fn == RowInputFn(feats)
           gen == EstimatorPredict(RowPredictInput(st, fn))
           s2 == [s1 EXCEPT !.features = feats, !.input_fn = fn,
                            !.fns = @ \cup {FnLog(site, fn)},
                            !.ops = @ \cup {"predict"},
                            !.calls = @ + 1, !.gen = gen,
                            !.gs = EstimatorStateAfterPredict(@)]
       IN IF fail = "predict" THEN [s2 EXCEPT !.error = "LibraryError"]
          ELSE IF ~GenHasNext(gen) THEN [s2 EXCEPT !.error = "StopIteration"]
          ELSE
            LET pred == GenValue(gen, m)
                s3 == [s2 EXCEPT !.gen = GenAdvance(gen),
                                 !.y_pred = Append(@, pred)]
                shown == site = "test" \/ pred # y_true
            IN IF shown /\ ~(IndexOK(cls, y_true) /\ IndexOK(cls, pred))
                 THEN [s3 EXCEPT !.error = "IndexError"]
               ELSE IF site = "val" /\ pred # y_true
                 THEN [s3 EXCEPT !.incorrect = @ + 1]
               ELSE s3

\* `except: continue` around the row: a row that cannot be read is skipped
RowStepSkipBad(row, st, m, cls, fail, site) ==
  IF Len(row) # 2 THEN st
  ELSE IF ~ParseInt(row[1]).ok THEN st
  ELSE LET r == RowBody(row, st, m, cls, fail, site)
       IN IF r.error = "LibraryError" THEN [r EXCEPT !.error = "none"] ELSE r

\* `for label, utterance in ...`: unpack, int(label), then the body
RowStep(row, st, m, cls, fail, site) ==
  IF Len(row) # 2 THEN [st EXCEPT !.error = "ValueError"]
  ELSE IF ~ParseInt(row[1]).ok THEN [st EXCEPT !.error = "ValueError"]
  ELSE RowBody(row, st, m, cls, fail, site)

Failures == {"none", "convert", "predict"}


------------------------------------------------------------------------------
(* The state after the setup cells (imports, paths, max_api_calls) *)

Init ==
  /\ pc = CellOrder[1]
  /\ error = "none"
  /\ done = {}
  /\ model \in Models
  /\ global_step = InitialGlobalStep
  /\ estimator_ops = {}
  /\ input_fns = {}
  /\ predict_calls = 0
  /\ classes = <<>>
  /\ features = NoFeatures
  /\ input_fn = NoInputFn
  /\ result = NoGen
  /\ result_iterations = 0
  /\ sample_out = <<>>
  /\ last_gen = NoGen
  /\ val_lines = <<>> /\ y_val = <<>> /\ y_val_pred = <<>>
  /\ incorrect = 0 /\ val_i = 0
  /\ test_lines = <<>> /\ y_test = <<>> /\ y_test_pred = <<>> /\ test_i = 0
  /\ summaries = {}
  /\ eval_result = NoEval /\ test_result = NoEval

estimatorVars == <<global_step, estimator_ops, input_fns, predict_calls>>
sampleVars == <<result, result_iterations, sample_out>>
valVars == <<val_lines, y_val, y_val_pred, incorrect, val_i>>
testVars == <<test_lines, y_test, y_test_pred, test_i>>
evalVars == <<eval_result, test_result>>

\* bert_config = modeling.BertConfig.from_json_file(config_file)
LoadConfig ==
  /\ At("load_config")
  /\ done' = done \cup {"config"}
  /\ pc' = NextCell("load_config")
  /\ UNCHANGED <<error, model, estimatorVars, classes, features, input_fn,
                 sampleVars, last_gen, valVars, testVars, summaries, evalVars>>

\* processor, label_list, tokenizer, model_fn = clf.model_fn_builder(...)
BuildModelFn ==
  /\ At("model_fn")
  /\ done' = done \cup {"build"}
  /\ pc' = NextCell("model_fn")
  /\ UNCHANGED <<error, model, estimatorVars, classes, features, input_fn,
                 sampleVars, last_gen, valVars, testVars, summaries, evalVars>>

\* run_config, estimator = tf.contrib.tpu.TPUEstimator(...)
BuildEstimator ==
  /\ At("estimator")
  /\ done' = done \cup {"build"}
  /\ pc' = NextCell("estimator")
  /\ UNCHANGED <<error, model, estimatorVars, classes, features, input_fn,
                 sampleVars, last_gen, valVars, testVars, summaries, evalVars>>

\* examples = [InputExample(sample_utterance)]; features = convert(...)
ConvertSample ==
  /\ At("convert_sample")
  /\ features' = ConvertExamplesToFeatures(
                   <<InputExample(ConvertToUnicode(sample_utterance))>>)
  /\ done' = done \cup {"convert"}
  /\ pc' = NextCell("convert_sample")
  /\ UNCHANGED <<error, model, estimatorVars, classes, input_fn,
                 sampleVars, last_gen, valVars, testVars, summaries, evalVars>>

SampleInputFn(feats) == InputFnBuilder(feats, FALSE, FALSE)

\* input_fn = clf.input_fn_builder(features, is_training=False, ...)
BuildSampleInputFn ==
  /\ At("sample_input_fn")
  /\ input_fn' = SampleInputFn(features)
  /\ input_fns' = input_fns \cup {FnLog("sample", input_fn')}
  /\ pc' = NextCell("sample_input_fn")
  /\ UNCHANGED <<error, done, model, global_step, estimator_ops, predict_calls,
                 classes, features, sampleVars, last_gen, valVars, testVars,
                 summaries, evalVars>>

\* list(estimator.predict(...)): every prediction is computed at once
SampleResultEager(fn) == [input_fn |-> fn, pos |-> Len(fn.features)]

SampleResult(fn) == EstimatorPredict(fn)

\* result = estimator.predict(input_fn=input_fn)
PredictSample ==
  /\ At("sample_predict")
  /\ result' = SampleResult(input_fn)
  /\ predict_calls' = predict_calls + 1
  /\ estimator_ops' = estimator_ops \cup {"predict"}
  /\ global_step' = EstimatorStateAfterPredict(global_step)
  /\ done' = done \cup {"predict"}
  /\ pc' = NextCell("sample_predict")
  /\ UNCHANGED <<error, model, input_fns, classes, features, input_fn,
                 result_iterations, sample_out, last_gen, valVars, testVars,
                 summaries, evalVars>>

\* classes = np.genfromtxt(classes_txt, dtype=str)
LoadClasses ==
  /\ At("load_classes")
  /\ classes' = SubSeq(ClassNames, 1, NumClasses)
  /\ pc' = NextCell("load_classes")
  /\ UNCHANGED <<error, done, model, estimatorVars, features, input_fn,
                 sampleVars, last_gen, valVars, testVars, summaries, evalVars>>

\* the labels the generator still has to yield
Remaining(gen, m) ==
  [k \in 1..(Len(gen.input_fn.features) - gen.pos) |->
     m[gen.input_fn.features[gen.pos + k].text]]

\* for label in result: print(classes[label])
PrintSample ==
  /\ At("print_sample")
  /\ \E fail \in {"none", "predict"} :
       LET labels == Remaining(result, model)
       IN /\ result_iterations' = result_iterations + 1
          /\ IF fail = "predict" /\ Len(labels) > 0
               THEN /\ error' = "LibraryError"
                    /\ UNCHANGED <<result, sample_out, pc>>
             ELSE IF \E k \in 1..Len(labels) : ~IndexOK(classes, labels[k])
               THEN /\ error' = "IndexError"
                    /\ UNCHANGED <<result, sample_out, pc>>
             ELSE /\ result' = [result EXCEPT !.pos = Len(result.input_fn.features)]
                  /\ sample_out' = sample_out \o
                       [k \in 1..Len(labels) |-> ClassAt(classes, labels[k])]
                  /\ pc' = NextCell("print_sample")
                  /\ UNCHANGED error
  /\ UNCHANGED <<done, model, estimatorVars, classes, features, input_fn,
                 last_gen, valVars, testVars, summaries, evalVars>>

\* val_lines = every row of val.csv
ReadVal ==
  /\ At("read_val")
  /\ \E f \in Files : val_lines' = f
  /\ pc' = NextCell("read_val")
  /\ UNCHANGED <<error, done, model, estimatorVars, classes, features, input_fn,
                 sampleVars, last_gen, y_val, y_val_pred, incorrect, val_i,
                 testVars, summaries, evalVars>>

\* y_val = []; y_val_pred = []; incorrect = 0; the slice is taken
ValLoopStart ==
  /\ At("val_loop")
  /\ y_val' = <<>> /\ y_val_pred' = <<>> /\ incorrect' = 0 /\ val_i' = 0
  /\ pc' = "val_rows"
  /\ UNCHANGED <<error, done, model, estimatorVars, classes, features, input_fn,
                 sampleVars, last_gen, val_lines, testVars, summaries, evalVars>>

\* the globals a row of either loop reads and writes
RowState(y, y_pred, inc) ==
  [error |-> "none", y |-> y, y_pred |-> y_pred, incorrect |-> inc,
   features |-> features, input_fn |-> input_fn, gen |-> last_gen,
   fns |-> input_fns, ops |-> estimator_ops, calls |-> predict_calls,
   gs |-> global_step]

RowEffect(r) ==
  /\ error' = r.error
  /\ features' = r.features
  /\ input_fn' = r.input_fn
  /\ last_gen' = r.gen
  /\ input_fns' = r.fns
  /\ estimator_ops' = r.ops
  /\ predict_calls' = r.calls
  /\ global_step' = r.gs
  /\ done' = IF r.calls > predict_calls THEN done \cup {"convert", "predict"}
             ELSE done

\* one row of `for label, utterance in val_lines[:max_api_calls]`
ValLoopStep ==
  /\ At("val_rows")
  /\ val_i < Len(ValSlice(val_lines))
  /\ \E fail \in Failures :
       LET r == RowStep(ValSlice(val_lines)[val_i + 1],
                        RowState(y_val, y_val_pred, incorrect),
                        model, classes, fail, "val")
       IN /\ RowEffect(r)
          /\ y_val' = r.y /\ y_val_pred' = r.y_pred /\ incorrect' = r.incorrect
  /\ val_i' = val_i + 1
  /\ UNCHANGED <<pc, model, classes, sampleVars, val_lines, testVars,
                 summaries, evalVars>>

\* the slice is exhausted: the cell ends
ValLoopEnd ==
  /\ At("val_rows")
  /\ val_i >= Len(ValSlice(val_lines))
  /\ pc' = NextCell("val_loop")
  /\ UNCHANGED <<error, done, model, estimatorVars, classes, features, input_fn,
                 sampleVars, last_gen, valVars, testVars, summaries, evalVars>>

\* stats = perf_summary(y_val, y_val_pred); print_perf_summary(stats)
DevSummary ==
  /\ At("dev_summary")
  /\ summaries' = summaries \cup {"dev"}
  /\ done' = done \cup {"metrics"}
  /\ pc' = NextCell("dev_summary")
  /\ UNCHANGED <<error, model, estimatorVars, classes, features, input_fn,
                 sampleVars, last_gen, valVars, testVars, evalVars>>

\* test_lines = every row of test.csv
ReadTest ==
  /\ At("read_test")
  /\ \E f \in Files : test_lines' = f
  /\ pc' = NextCell("read_test")
  /\ UNCHANGED <<error, done, model, estimatorVars, classes, features, input_fn,
                 sampleVars, last_gen, valVars, y_test, y_test_pred, test_i,
                 summaries, evalVars>>

\* y_test = []; y_test_pred = []; the slice is taken
TestLoopStart ==
  /\ At("test_loop")
  /\ y_test' = <<>> /\ y_test_pred' = <<>> /\ test_i' = 0
  /\ pc' = "test_rows"
  /\ UNCHANGED <<error, done, model, estimatorVars, classes, features, input_fn,
                 sampleVars, last_gen, valVars, test_lines, summaries, evalVars>>

\* one row of `for label, utterance in test_lines[:200]`
TestLoopStep ==
  /\ At("test_rows")
  /\ test_i < Len(TestSlice(test_lines))
  /\ \E fail \in Failures :
       LET r == RowStep(TestSlice(test_lines)[test_i + 1],
                        RowState(y_test, y_test_pred, incorrect),
                        model, classes, fail, "test")
       IN /\ RowEffect(r)
          /\ y_test' = r.y /\ y_test_pred' = r.y_pred
  /\ test_i' = test_i + 1
  /\ UNCHANGED <<pc, model, classes, sampleVars, valVars, test_lines,
                 summaries, evalVars>>

TestLoopEnd ==
  /\ At("test_rows")
  /\ test_i >= Len(TestSlice(test_lines))
  /\ pc' = NextCell("test_loop")
  /\ UNCHANGED <<error, done, model, estimatorVars, classes, features, input_fn,
                 sampleVars, last_gen, valVars, testVars, summaries, evalVars>>

\* stats = perf_summary(y_test, y_test_pred); print_perf_summary(stats)
TestSummary ==
  /\ At("test_summary")
  /\ summaries' = summaries \cup {"test"}
  /\ done' = done \cup {"metrics"}
  /\ pc' = NextCell("test_summary")
  /\ UNCHANGED <<error, model, estimatorVars, classes, features, input_fn,
                 sampleVars, last_gen, valVars, testVars, evalVars>>

\* eval_examples = processor.get_dev_examples(...); eval_features = convert(...)
ConvertDev ==
  /\ At("convert_dev")
  /\ done' = done \cup {"convert"}
  /\ pc' = NextCell("convert_dev")
  /\ UNCHANGED <<error, model, estimatorVars, classes, features, input_fn,
                 sampleVars, last_gen, valVars, testVars, summaries, evalVars>>

EvalInputFn(feats) == InputFnBuilder(feats, FALSE, FALSE)

DevFeatures == <<[text |-> "dev examples"]>>

TestFeatures == <<[text |-> "test examples"]>>

\* eval_input_fn = ...; eval_result = estimator.evaluate(...); print it
EvaluateDev ==
  /\ At("evaluate_dev")
  /\ input_fns' = input_fns \cup {FnLog("eval_dev", EvalInputFn(DevFeatures))}
  /\ estimator_ops' = estimator_ops \cup {"evaluate"}
  /\ eval_result' = EstimatorEvaluate(global_step)
  /\ global_step' = EstimatorStateAfterEvaluate(global_step)
  /\ done' = done \cup {"predict", "metrics"}
  /\ pc' = NextCell("evaluate_dev")
  /\ UNCHANGED <<error, model, predict_calls, classes, features, input_fn,
                 sampleVars, last_gen, valVars, testVars, summaries, test_result>>

\* test_examples = processor.get_test_examples(...); test_features = convert(...)
ConvertTest ==
  /\ At("convert_test")
  /\ done' = done \cup {"convert"}
  /\ pc' = NextCell("convert_test")
  /\ UNCHANGED <<error, model, estimatorVars, classes, features, input_fn,
                 sampleVars, last_gen, valVars, testVars, summaries, evalVars>>

\* test_input_fn = ...; test_result = estimator.evaluate(...); print it
EvaluateTest ==
  /\ At("evaluate_test")
  /\ input_fns' = input_fns \cup {FnLog("eval_test", EvalInputFn(TestFeatures))}
  /\ estimator_ops' = estimator_ops \cup {"evaluate"}
  /\ test_result' = EstimatorEvaluate(global_step)
  /\ global_step' = EstimatorStateAfterEvaluate(global_step)
  /\ done' = done \cup {"predict", "metrics"}
  /\ pc' = NextCell("evaluate_test")
  /\ UNCHANGED <<error, model, predict_calls, classes, features, input_fn,
                 sampleVars, last_gen, valVars, testVars, summaries, eval_result>>

Next ==
  \/ LoadConfig \/ BuildModelFn \/ BuildEstimator
  \/ ConvertSample \/ BuildSampleInputFn \/ PredictSample
  \/ LoadClasses \/ PrintSample
  \/ ReadVal \/ ValLoopStart \/ ValLoopStep \/ ValLoopEnd \/ DevSummary
  \/ ReadTest \/ TestLoopStart \/ TestLoopStep \/ TestLoopEnd \/ TestSummary
  \/ ConvertDev \/ EvaluateDev \/ ConvertTest \/ EvaluateTest

Spec == Init /\ [][Next]_vars


------------------------------------------------------------------------------
(* Vocabulary of the properties *)

Position(p) == IF p = "val_rows" THEN CellIndex("val_loop")
               ELSE IF p = "test_rows" THEN CellIndex("test_loop")
               ELSE CellIndex(p)

\* the run has gone past cell c: c completed without raising
Past(c) == Position(pc) > CellIndex(c)

Kinds == <<"config", "build", "convert", "predict", "metrics">>

\* the row cannot be unpacked into (label, utterance) or its label is no integer
BadRow(row) == Len(row) # 2 \/ ~ParseInt(row[1]).ok

ValRows == Min(Len(val_lines), max_api_calls)

TestRows == Min(Len(test_lines), max_api_calls)

------------------------------------------------------------------------------
\* The state part of C1: the kinds of step that have happened are an initial
\* part of Kinds, and a printed summary has all its predictions.
C1_StepOrder ==
  /\ \A k \in 1..Len(Kinds) :
       Kinds[k] \in done => \A j \in 1..k : Kinds[j] \in done
  /\ "dev" \in summaries =>
       /\ val_i = ValRows
       /\ Len(y_val_pred) = ValRows /\ Len(y_val) = ValRows
  /\ "test" \in summaries =>
       /\ "dev" \in summaries
       /\ test_i = TestRows
       /\ Len(y_test_pred) = TestRows /\ Len(y_test) = TestRows

\* C1: the run is a linear script.  A kind of step (config, build, convert,
\* predict, metrics) has happened only if every earlier kind has happened,
\* and a performance summary (dev, test) is printed only once the loop that
\* feeds it has taken every row of its slice and recorded a prediction for
\* each; after a summary is printed its predictions no longer change.
C1_LinearScript ==
  /\ []C1_StepOrder
  /\ [][/\ "dev" \in summaries => y_val_pred' = y_val_pred /\ "dev" \in summaries'
        /\ "test" \in summaries => y_test_pred' = y_test_pred]_vars

C1_Witness ==
  /\ pc = "end" /\ error = "none"
  /\ summaries = {"dev", "test"}
  /\ Len(y_val_pred) = max_api_calls /\ Len(y_test_pred) = 1

C3_InferenceOnly ==
  /\ estimator_ops \subseteq {"predict", "evaluate"}
  /\ \A f \in input_fns : ~f.is_training /\ ~f.drop_remainder
  /\ ~input_fn.is_training /\ ~input_fn.drop_remainder
  /\ ~last_gen.input_fn.is_training /\ ~result.input_fn.is_training

C3_Witness ==
  /\ pc = "end"
  /\ {f.site : f \in input_fns} = {"sample", "val", "test", "eval_dev", "eval_test"}
  /\ estimator_ops = {"predict", "evaluate"}

\* The state part of C4: where the loop stands after a row has raised.
C4_StopsAtRow ==
  /\ (pc = "val_rows" /\ val_i >= 1 /\ BadRow(val_lines[val_i])) =>
       /\ error = "ValueError"
       /\ Len(y_val) = val_i - 1 /\ Len(y_val_pred) = val_i - 1
  /\ (pc = "test_rows" /\ test_i >= 1 /\ BadRow(test_lines[test_i])) =>
       /\ error = "ValueError"
       /\ Len(y_test) = test_i - 1 /\ Len(y_test_pred) = test_i - 1
  /\ (pc = "val_rows" /\ error # "none") =>
       /\ "dev" \notin summaries
       /\ Len(y_val) \in {val_i - 1, val_i}
       /\ Len(y_val_pred) \in {val_i - 1, val_i}
  /\ (pc = "test_rows" /\ error # "none") =>
       /\ "test" \notin summaries
       /\ Len(y_test) \in {test_i - 1, test_i}
       /\ Len(y_test_pred) \in {test_i - 1, test_i}
  /\ (pc = "val_rows" /\ error = "none") => Len(y_val_pred) = val_i
  /\ (pc = "test_rows" /\ error = "none") => Len(y_test_pred) = test_i
  /\ "dev" \in summaries => \A i \in 1..ValRows : ~BadRow(val_lines[i])
  /\ "test" \in summaries => \A i \in 1..TestRows : ~BadRow(test_lines[i])

\* C4: no failure handling.  A row of the validation (test) loop that cannot
\* be unpacked or whose label is no integer stops the loop at that row; once
\* a row has raised (also in feature conversion or in estimator.predict),
\* nothing runs any more (no retry, no later row, no summary); a summary is
\* printed only if no row of its slice raised.
C4_NoFailureHandling ==
  /\ []C4_StopsAtRow
  /\ [][error # "none" => UNCHANGED vars]_vars

C4_Witness ==
  /\ pc = "val_rows" /\ error = "ValueError"
  /\ val_i = max_api_calls /\ Len(val_lines) > val_i
  /\ Len(y_val_pred) = val_i - 1

\* C5: the validation loop takes the first min(len(val_lines), max_api_calls)
\* rows in file order and issues one estimator.predict call per row: while it
\* runs, the rows taken, the labels, the predictions and the predict calls
\* after the sample's advance together; when it has completed,
\* len(y_val) = len(y_val_pred) = min(len(val_lines), max_api_calls).
C5_ValLoopCount ==
  /\ val_i <= ValRows
  /\ (pc = "val_rows" /\ error = "none") =>
       /\ Len(y_val) = val_i /\ Len(y_val_pred) = val_i
       /\ predict_calls = 1 + val_i
  /\ Past("val_loop") =>
       /\ val_i = ValRows
       /\ Len(y_val) = ValRows /\ Len(y_val_pred) = ValRows
       /\ \A i \in 1..ValRows : y_val[i] = ParseInt(val_lines[i][1]).val
  /\ (Past("val_loop") /\ ~Past("test_loop") /\ pc # "test_rows") =>
       predict_calls = 1 + ValRows

C5_Witness ==
  /\ pc = "dev_summary" /\ error = "none"
  /\ Len(val_lines) = max_api_calls + 1
  /\ Len(y_val) = max_api_calls /\ predict_calls = 1 + max_api_calls

\* C6: labels and predictions are aligned by row.  Once the validation
\* (test) loop has completed, for every index i, y_val[i] is the integer
\* label of row i of the file and y_val_pred[i] is the checkpoint's
\* prediction for the utterance of that same row; the two lists have the
\* same length when the summary is computed from them.
C6_Aligned ==
  /\ Past("val_loop") =>
       /\ Len(y_val) = Len(y_val_pred)
       /\ \A i \in 1..Len(y_val_pred) :
            /\ y_val[i] = ParseInt(val_lines[i][1]).val
            /\ y_val_pred[i] = model[val_lines[i][2]]
  /\ Past("test_loop") =>
       /\ Len(y_test) = Len(y_test_pred)
       /\ \A i \in 1..Len(y_test_pred) :
            /\ y_test[i] = ParseInt(test_lines[i][1]).val
            /\ y_test_pred[i] = model[test_lines[i][2]]

C6_Witness ==
  /\ "test" \in summaries
  /\ Len(y_val) >= 2
  /\ \E i, j \in 1..Len(y_val) :
       y_val[i] = y_val_pred[i] /\ y_val[j] # y_val_pred[j]
  /\ Len(y_test) >= 2

\* C7: every per-row estimator.predict call gets the features of exactly one
\* InputExample, the utterance of the row being processed, and exactly one
\* prediction is taken from its generator; the prediction recorded for a row
\* is the one of that row's utterance.
C7_OneExamplePerPredict ==
  /\ Len(last_gen.input_fn.features) <= 1
  /\ last_gen.pos <= 1
  /\ (pc = "val_rows" /\ val_i >= 1 /\ error = "none") =>
       /\ last_gen.input_fn.features = <<[text |-> val_lines[val_i][2]]>>
       /\ last_gen.pos = 1
       /\ y_val_pred[val_i] = model[val_lines[val_i][2]]
  /\ (pc = "test_rows" /\ test_i >= 1 /\ error = "none") =>
       /\ last_gen.input_fn.features = <<[text |-> test_lines[test_i][2]]>>
       /\ last_gen.pos = 1
       /\ y_test_pred[test_i] = model[test_lines[test_i][2]]

C7_Witness ==
  /\ pc = "test_rows" /\ error = "none"
  /\ test_i = max_api_calls /\ last_gen.pos = 1
  /\ val_i >= 2 /\ val_lines[val_i][2] # test_lines[test_i][2]

\* C8: the sample prediction is lazy and consumed once.  Between the
\* estimator.predict call and the printing loop the generator in `result`
\* has yielded nothing; nothing is yielded while classes is undefined; the
\* printing loop iterates it once, and prints classes[label] for the label
\* of the sample utterance.
C8_LazySample ==
  /\ result.pos > 0 => classes # <<>>
  /\ sample_out # <<>> => classes # <<>>
  /\ (Past("sample_predict") /\ ~Past("print_sample")) =>
       /\ result.pos = 0 /\ sample_out = <<>>
       /\ result.input_fn.features = <<[text |-> sample_utterance]>>
  /\ result_iterations <= 1
  /\ Past("print_sample") =>
       /\ result_iterations = 1
       /\ result.pos = 1
       /\ sample_out = <<ClassAt(classes, model[sample_utterance])>>

C8_Witness ==
  /\ pc = "read_val" /\ error = "none"
  /\ result.pos = 1 /\ Len(sample_out) = 1

\* C9: the test loop takes at most max_api_calls rows of test.csv, exactly
\* min(len(test_lines), max_api_calls) when it completes, and a run issues at
\* most 1 + 2 * max_api_calls estimator.predict calls.
C9_TestLimit ==
  /\ test_i <= max_api_calls
  /\ Len(y_test) <= max_api_calls
  /\ Past("test_loop") =>
       /\ test_i = Min(Len(test_lines), max_api_calls)
       /\ Len(y_test_pred) = Min(Len(test_lines), max_api_calls)
  /\ predict_calls <= 1 + 2 * max_api_calls

C9_Witness ==
  /\ pc = "end"
  /\ Len(test_lines) > max_api_calls /\ Len(val_lines) > max_api_calls
  /\ test_i = max_api_calls
  /\ predict_calls = 1 + 2 * max_api_calls

====
